---- MODULE Spec2Model ----
(***************************************************************************)
(* Model of the raw-audio container encoder of src/utils/audioUtils.ts:    *)
(* base64ToUint8Array, createWavHeader, writeString and pcmToWavBlob.      *)
(* A Uint8Array is a sequence of bytes (index i of the code is i + 1       *)
(* here), a string is a sequence of one-character strings.  Every array   *)
(* built element by element is concatenated with <<>>, which makes it a    *)
(* sequence value.                                                         *)
(* The second part models the text-to-speech panel of the App component    *)
(* (src/unnamed/part_003): its state hooks, persistence effects, handlers  *)
(* and the replies of the services of src/unnamed/part_002.                *)
(***************************************************************************)
EXTENDS Integers, Sequences, FiniteSets, TLC

VARIABLES fn, base64Audio, args, outcome, payload, calls

\* the App component (the text-to-speech panel), its document and the
\* services it awaits
VARIABLES life, state, rendered, storage, requests, liveUrls, urlCount,
          cleanupHistory

wavVars == <<fn, base64Audio, args, outcome, payload, calls>>

\* the transcription panel: getUserMedia calls awaited, the MediaRecorders
\* created, the refs, the interval timers, the processAudio calls awaited
\* and the FileUploader's own state
VARIABLES pendingMedia, mediaCount, recorders, mediaRecorderRef,
          audioChunksRef, timers, timerRef, timerCount, processing, isDragging

\* the calls of onFileSelected: how many there were and the file of the last
VARIABLES uploads, selected

\* what the last processAudio call to finish awaited: a result or an error
VARIABLES settled

recVars == <<pendingMedia, mediaCount, recorders, mediaRecorderRef,
             audioChunksRef, timers, timerRef, timerCount, processing,
             isDragging, uploads, selected, settled>>

appVars == <<life, state, rendered, storage, requests, liveUrls, urlCount,
             cleanupHistory, pendingMedia, mediaCount, recorders,
             mediaRecorderRef, audioChunksRef, timers, timerRef, timerCount,
             processing, isDragging, uploads, selected, settled>>

vars == <<fn, base64Audio, args, outcome, payload, calls, life, state,
          rendered, storage, requests, liveUrls, urlCount, cleanupHistory,
          pendingMedia, mediaCount, recorders, mediaRecorderRef,
          audioChunksRef, timers, timerRef, timerCount, processing,
          isDragging, uploads, selected, settled>>

(***************************************************************************)
(* Bounds and input sets.                                                  *)
(***************************************************************************)
\* longest base64 input enumerated character by character
MaxLen == 4

\* the characters inputs are built from: three alphabet characters with
\* sextets 0, 16 and 63, the padding character, a character outside the
\* alphabet and an ASCII whitespace character
Chars == {"A", "Q", "/", "=", "!", " "}

ShortInputs == UNION {[1..n -> Chars] : n \in 0..MaxLen}

\* inputs of two groups: a full group followed by a second (partial) group
TwoGroupInputs ==
  {s \o t : s \in [1..4 -> {"A", "/"}],
            t \in UNION {[1..n -> {"Q", "/", "="}] : n \in 2..4}}

\* pcmToWavBlob's default sample rate
DefaultSampleRate == 24000

\* one second of silence at the default profile (48,000 zero bytes)
SilentClipLen == 2 * DefaultSampleRate

\* its base64 encoding: 64,000 times "A"
SilentClipBase64 == [i \in 1..((SilentClipLen \div 3) * 4) |-> "A"]

Base64Inputs == ShortInputs \cup TwoGroupInputs \cup {SilentClipBase64}

\* longest byte sequence encoded and decoded again
MaxBytes == 4

\* the byte values such a sequence is made of
ByteValues == {0, 1, 127, 128, 255}

Payloads == UNION {[1..n -> ByteValues] : n \in 0..MaxBytes}

\* number of pcmToWavBlob calls in progress at once
NumCalls == 2

\* what the concurrent calls are given: an empty input, inputs of one, two
\* and three bytes and an invalid one, with and without a sample rate
CallInputs ==
  {<<>>, <<"/", "Q", "=", "=">>, <<"A", "A", "A", "=">>, <<"Q", "/", "A", "Q">>,
   <<"A", "!">>}
CallArgLists == {<<>>, <<8000>>}

\* argument lists a caller passes after base64Audio: nothing, a sample rate,
\* and (ignored by the signature) a channel count and a sample width
SampleRates == {0, 8000, 44100}
ChannelCounts == {2}
BitDepths == {8}
ArgLists ==
  {<<>>} \cup {<<s>> : s \in SampleRates}
         \cup {<<s, c>> : s \in SampleRates, c \in ChannelCounts}
         \cup {<<s, c, b>> : s \in SampleRates, c \in ChannelCounts, b \in BitDepths}

\* parameters of direct createWavHeader calls
HdrDataLengths == {-1, 0, 1, 2, 3}
HdrSampleRates == {-1, 0, 8000, 24000, 44100}
HdrChannels == {-1, 0, 1, 2}
HdrBits == {-8, 0, 8, 12, 16, 24}

(***************************************************************************)
(* Outcomes of a call: a returned value or a thrown error.                 *)
(***************************************************************************)
NoOutcome == [kind |-> "none", error |-> "", type |-> "", bytes |-> <<>>]
Returned(t, b) == [kind |-> "returned", error |-> "", type |-> t, bytes |-> b]
Threw(e) == [kind |-> "threw", error |-> e, type |-> "", bytes |-> <<>>]

(***************************************************************************)
(* atob (audioUtils.ts:26): the platform's forgiving base64 decoder.       *)
(***************************************************************************)
B64Alphabet ==
  <<"A","B","C","D","E","F","G","H","I","J","K","L","M","N","O","P",
    "Q","R","S","T","U","V","W","X","Y","Z","a","b","c","d","e","f",
    "g","h","i","j","k","l","m","n","o","p","q","r","s","t","u","v",
    "w","x","y","z","0","1","2","3","4","5","6","7","8","9","+","/">>

B64Chars == {B64Alphabet[i] : i \in 1..Len(B64Alphabet)}

\* the sextet a character of the alphabet stands for
B64Index == [c \in B64Chars |-> (CHOOSE i \in 1..Len(B64Alphabet) : B64Alphabet[i] = c) - 1]

IsAsciiWhitespace(c) == c \in {" ", "\t", "\n", "\f", "\r"}

IsNotAsciiWhitespace(c) == ~IsAsciiWhitespace(c)

\* step 1: remove all ASCII whitespace
StripWhitespace(data) == SelectSeq(data, IsNotAsciiWhitespace)

\* mutant: trailing "=" are removed whatever the length
StripPaddingAnyLength(data) ==
  LET n == Len(data)
  IN IF n >= 1 /\ data[n] = "="
       THEN IF n >= 2 /\ data[n - 1] = "="
              THEN SubSeq(data, 1, n - 2)
              ELSE SubSeq(data, 1, n - 1)
       ELSE data

\* step 2: a length that is a multiple of 4 loses one or two trailing "="
StripPadding(data) ==
  LET n == Len(data)
  IN IF n % 4 = 0 /\ n >= 1 /\ data[n] = "="
       THEN IF n >= 2 /\ data[n - 1] = "="
              THEN SubSeq(data, 1, n - 2)
              ELSE SubSeq(data, 1, n - 1)
       ELSE data

\* steps 3 and 4: a length of 1 modulo 4, or a character outside the
\* alphabet, is a failure
AtobFails(data) ==
  LET d == StripPadding(StripWhitespace(data))
  IN \/ Len(d) % 4 = 1
     \/ \E i \in 1..Len(d) : d[i] \notin B64Chars

\* mutant: a tail of three sextets gives one byte, like a tail of two
DecodedLengthShortTail(n) ==
  (n \div 4) * 3 + (IF n % 4 \in {2, 3} THEN 1 ELSE 0)

\* number of bytes n sextets give: 3 per full group, then 1 for 12 bits
\* (4 discarded) and 2 for 18 bits (2 discarded)
DecodedLength(n) ==
  (n \div 4) * 3 + (IF n % 4 = 2 THEN 1 ELSE IF n % 4 = 3 THEN 2 ELSE 0)

\* mutant: the second byte takes the high bits of the second sextet
DecodedByteHighBits(d, k) ==
  LET g == (k - 1) \div 3
      j == (k - 1) % 3
      s1 == B64Index[d[4 * g + 1]]
      s2 == B64Index[d[4 * g + 2]]
      s3 == B64Index[d[4 * g + 3]]
      s4 == B64Index[d[4 * g + 4]]
  IN IF j = 0 THEN s1 * 4 + (s2 \div 16)
     ELSE IF j = 1 THEN (s2 \div 4) * 16 + (s3 \div 4)
     ELSE (s3 % 4) * 64 + s4

\* byte k (from 1) of the output, from the sextets of its group
DecodedByte(d, k) ==
  LET g == (k - 1) \div 3
      j == (k - 1) % 3
      s1 == B64Index[d[4 * g + 1]]
      s2 == B64Index[d[4 * g + 2]]
      s3 == B64Index[d[4 * g + 3]]
      s4 == B64Index[d[4 * g + 4]]
  IN IF j = 0 THEN s1 * 4 + (s2 \div 16)
     ELSE IF j = 1 THEN (s2 % 16) * 16 + (s3 \div 4)
     ELSE (s3 % 4) * 64 + s4

\* the binary string of a successful atob, as its code points
AtobOutput(data) ==
  LET d == StripPadding(StripWhitespace(data))
  IN [k \in 1..DecodedLength(Len(d)) |-> DecodedByte(d, k)] \o <<>>

atob(data) ==
  IF AtobFails(data)
    THEN Threw("InvalidCharacterError")
    ELSE Returned("binaryString", AtobOutput(data))

(***************************************************************************)
(* The standard base64 encoding, as FileReader.readAsDataURL produces it   *)
(* for blobToBase64 (audioUtils.ts:1-13): the encoder the decoder matches. *)
(***************************************************************************)
Base64Char(bytes, k) ==
  LET n == Len(bytes)
      g == (k - 1) \div 4
      j == (k - 1) % 4
      b1 == bytes[3 * g + 1]
      b2 == IF 3 * g + 2 <= n THEN bytes[3 * g + 2] ELSE 0
      b3 == IF 3 * g + 3 <= n THEN bytes[3 * g + 3] ELSE 0
  IN IF j = 0 THEN B64Alphabet[(b1 \div 4) + 1]
     ELSE IF j = 1 THEN B64Alphabet[(b1 % 4) * 16 + (b2 \div 16) + 1]
     ELSE IF j = 2
       THEN IF 3 * g + 2 > n THEN "="
            ELSE B64Alphabet[(b2 % 16) * 4 + (b3 \div 64) + 1]
     ELSE IF 3 * g + 3 > n THEN "=" ELSE B64Alphabet[(b3 % 64) + 1]

Base64Encode(bytes) ==
  [k \in 1..(((Len(bytes) + 2) \div 3) * 4) |-> Base64Char(bytes, k)] \o <<>>

(***************************************************************************)
(* base64ToUint8Array (audioUtils.ts:25-33)                                *)
(***************************************************************************)
base64ToUint8Array(base64) ==
  LET binaryString == atob(base64)
  IN IF binaryString.kind = "threw"
       THEN binaryString
       ELSE Returned("Uint8Array",
              [i \in 1..Len(binaryString.bytes) |-> binaryString.bytes[i] % 256] \o <<>>)

(***************************************************************************)
(* DataView writes (audioUtils.ts:43-59, 64-68)                            *)
(***************************************************************************)
\* ToInteger of numerator/denominator: truncation toward zero
TruncDiv(n, d) == IF n >= 0 THEN n \div d ELSE -((-n) \div d)

\* byte k (0 = least significant) of value modulo 2^32
ByteOf(value, k) ==
  (value \div (IF k = 0 THEN 1 ELSE IF k = 1 THEN 256
               ELSE IF k = 2 THEN 65536 ELSE 16777216)) % 256

setUint8(view, byteOffset, value) ==
  [i \in 1..Len(view) |-> IF i - 1 = byteOffset THEN value % 256 ELSE view[i]] \o <<>>

\* mutant: the littleEndian flag is ignored, the bytes are big-endian
setUint16BigEndian(view, byteOffset, value, littleEndian) ==
  [i \in 1..Len(view) |->
     IF i - 1 \in byteOffset..(byteOffset + 1)
       THEN ByteOf(value, 1 - (i - 1 - byteOffset))
       ELSE view[i]] \o <<>>

setUint16(view, byteOffset, value, littleEndian) ==
  [i \in 1..Len(view) |->
     IF i - 1 \in byteOffset..(byteOffset + 1)
       THEN ByteOf(value, IF littleEndian THEN i - 1 - byteOffset
                                          ELSE 1 - (i - 1 - byteOffset))
       ELSE view[i]] \o <<>>

\* mutant: the littleEndian flag is ignored, the bytes are big-endian
setUint32BigEndian(view, byteOffset, value, littleEndian) ==
  [i \in 1..Len(view) |->
     IF i - 1 \in byteOffset..(byteOffset + 3)
       THEN ByteOf(value, 3 - (i - 1 - byteOffset))
       ELSE view[i]] \o <<>>

setUint32(view, byteOffset, value, littleEndian) ==
  [i \in 1..Len(view) |->
     IF i - 1 \in byteOffset..(byteOffset + 3)
       THEN ByteOf(value, IF littleEndian THEN i - 1 - byteOffset
                                          ELSE 3 - (i - 1 - byteOffset))
       ELSE view[i]] \o <<>>

\* charCodeAt of the characters of the four tags
CharCode ==
  ("R" :> 82) @@ ("I" :> 73) @@ ("F" :> 70) @@ ("W" :> 87) @@ ("A" :> 65) @@
  ("V" :> 86) @@ ("E" :> 69) @@ ("f" :> 102) @@ ("m" :> 109) @@ ("t" :> 116) @@
  (" " :> 32) @@ ("d" :> 100) @@ ("a" :> 97)

RECURSIVE writeStringFrom(_, _, _, _)
writeStringFrom(view, offset, string, i) ==
  IF i >= Len(string)
    THEN view
    ELSE writeStringFrom(setUint8(view, offset + i, CharCode[string[i + 1]]),
                         offset, string, i + 1)

\* mutant: only the first character of the tag is written
writeStringFirstOnly(view, offset, string) ==
  setUint8(view, offset, CharCode[string[1]])

writeString(view, offset, string) == writeStringFrom(view, offset, string, 0)


(***************************************************************************)
(* createWavHeader (audioUtils.ts:38-62)                                   *)
(***************************************************************************)
\* new ArrayBuffer(44): 44 zero bytes
HeaderLength == 44

ZeroBytes(n) == [i \in 1..n |-> 0] \o <<>>

\* mutant: the division of bitsPerSample by 8 is forgotten
ByteRateInBits(sampleRate, numChannels, bitsPerSample) ==
  sampleRate * numChannels * bitsPerSample

\* sampleRate * numChannels * (bitsPerSample / 8) as DataView converts it:
\* the quotient is exact in floating point, the conversion truncates
ByteRateOf(sampleRate, numChannels, bitsPerSample) ==
  TruncDiv(sampleRate * numChannels * bitsPerSample, 8)

\* numChannels * (bitsPerSample / 8), converted likewise
BlockAlignOf(numChannels, bitsPerSample) ==
  TruncDiv(numChannels * bitsPerSample, 8)

\* mutant: the parameters are validated before the header is built
createWavHeaderValidating(dataLength, sampleRate, numChannels, bitsPerSample) ==
  IF \/ dataLength < 0 \/ sampleRate <= 0 \/ numChannels <= 0
     \/ bitsPerSample <= 0 \/ bitsPerSample % 8 # 0
    THEN Threw("InvalidFormatProfileError")
    ELSE
      LET v0  == ZeroBytes(HeaderLength)
          v1  == writeString(v0, 0, <<"R", "I", "F", "F">>)
          v2  == setUint32(v1, 4, 36 + dataLength, TRUE)
          v3  == writeString(v2, 8, <<"W", "A", "V", "E">>)
          v4  == writeString(v3, 12, <<"f", "m", "t", " ">>)
          v5  == setUint32(v4, 16, 16, TRUE)
          v6  == setUint16(v5, 20, 1, TRUE)
          v7  == setUint16(v6, 22, numChannels, TRUE)
          v8  == setUint32(v7, 24, sampleRate, TRUE)
          v9  == setUint32(v8, 28, ByteRateOf(sampleRate, numChannels, bitsPerSample), TRUE)
          v10 == setUint16(v9, 32, BlockAlignOf(numChannels, bitsPerSample), TRUE)
          v11 == setUint16(v10, 34, bitsPerSample, TRUE)
          v12 == writeString(v11, 36, <<"d", "a", "t", "a">>)
          v13 == setUint32(v12, 40, dataLength, TRUE)
      IN Returned("Uint8Array", v13)

createWavHeader(dataLength, sampleRate, numChannels, bitsPerSample) ==
  LET v0  == ZeroBytes(HeaderLength)
      v1  == writeString(v0, 0, <<"R", "I", "F", "F">>)
      v2  == setUint32(v1, 4, 36 + dataLength, TRUE)
      v3  == writeString(v2, 8, <<"W", "A", "V", "E">>)
      v4  == writeString(v3, 12, <<"f", "m", "t", " ">>)
      v5  == setUint32(v4, 16, 16, TRUE)
      v6  == setUint16(v5, 20, 1, TRUE)
      v7  == setUint16(v6, 22, numChannels, TRUE)
      v8  == setUint32(v7, 24, sampleRate, TRUE)
      v9  == setUint32(v8, 28, ByteRateOf(sampleRate, numChannels, bitsPerSample), TRUE)
      v10 == setUint16(v9, 32, BlockAlignOf(numChannels, bitsPerSample), TRUE)
      v11 == setUint16(v10, 34, bitsPerSample, TRUE)
      v12 == writeString(v11, 36, <<"d", "a", "t", "a">>)
      v13 == setUint32(v12, 40, dataLength, TRUE)
  IN Returned("Uint8Array", v13)

(***************************************************************************)
(* pcmToWavBlob (audioUtils.ts:74-87)                                      *)
(***************************************************************************)
\* mutant: the offset is ignored, the source lands at index 0
TypedArraySetAtZero(target, source, offset) ==
  [i \in 1..Len(target) |->
     IF i - 1 \in 0..(Len(source) - 1) THEN source[i] ELSE target[i]] \o <<>>

\* Uint8Array.prototype.set(source, offset)
TypedArraySet(target, source, offset) ==
  [i \in 1..Len(target) |->
     IF i - 1 \in offset..(offset + Len(source) - 1)
       THEN source[i - offset]
       ELSE target[i]] \o <<>>

\* mutant: another default sample rate
SampleRateParam16k(arguments) ==
  IF Len(arguments) >= 1 THEN arguments[1] ELSE 16000

\* the sampleRate parameter: the first argument after base64Audio, or the
\* default when it is absent; further arguments have no parameter
SampleRateParam(arguments) ==
  IF Len(arguments) >= 1 THEN arguments[1] ELSE DefaultSampleRate

\* mutant: a channel count and a sample width given after the sample rate
\* are passed on to the header
pcmToWavBlobWithProfile(base64, arguments) ==
  LET sampleRate == SampleRateParam(arguments)
      numChannels == IF Len(arguments) >= 2 THEN arguments[2] ELSE 1
      bitsPerSample == IF Len(arguments) >= 3 THEN arguments[3] ELSE 16
      pcmData == base64ToUint8Array(base64)
  IN IF pcmData.kind = "threw"
       THEN pcmData
       ELSE LET header == createWavHeader(Len(pcmData.bytes), sampleRate,
                                          numChannels, bitsPerSample)
                w0 == ZeroBytes(Len(header.bytes) + Len(pcmData.bytes))
                w1 == TypedArraySet(w0, header.bytes, 0)
                wavFile == TypedArraySet(w1, pcmData.bytes, Len(header.bytes))
            IN Returned("audio/wav", wavFile)

\* mutant: an empty payload is rejected
pcmToWavBlobRejectingEmpty(base64, arguments) ==
  LET sampleRate == SampleRateParam(arguments)
      pcmData == base64ToUint8Array(base64)
  IN IF pcmData.kind = "threw"
       THEN pcmData
       ELSE IF Len(pcmData.bytes) = 0
       THEN Threw("EmptyPayloadError")
       ELSE LET header == createWavHeader(Len(pcmData.bytes), sampleRate, 1, 16)
                w0 == ZeroBytes(Len(header.bytes) + Len(pcmData.bytes))
                w1 == TypedArraySet(w0, header.bytes, 0)
                wavFile == TypedArraySet(w1, pcmData.bytes, Len(header.bytes))
            IN Returned("audio/wav", wavFile)

\* mutant: the header is built for the length of the base64 string
pcmToWavBlobInputLength(base64, arguments) ==
  LET sampleRate == SampleRateParam(arguments)
      pcmData == base64ToUint8Array(base64)
  IN IF pcmData.kind = "threw"
       THEN pcmData
       ELSE LET header == createWavHeader(Len(base64), sampleRate, 1, 16)
                w0 == ZeroBytes(Len(header.bytes) + Len(pcmData.bytes))
                w1 == TypedArraySet(w0, header.bytes, 0)
                wavFile == TypedArraySet(w1, pcmData.bytes, Len(header.bytes))
            IN Returned("audio/wav", wavFile)

\* mutant: a payload of odd length is padded to whole 16-bit samples
pcmToWavBlobPadding(base64, arguments) ==
  LET sampleRate == SampleRateParam(arguments)
      pcmData == base64ToUint8Array(base64)
  IN IF pcmData.kind = "threw"
       THEN pcmData
       ELSE LET padded == IF Len(pcmData.bytes) % 2 = 1
                            THEN Append(pcmData.bytes, 0)
                            ELSE pcmData.bytes
                header == createWavHeader(Len(padded), sampleRate, 1, 16)
                w0 == ZeroBytes(Len(header.bytes) + Len(padded))
                w1 == TypedArraySet(w0, header.bytes, 0)
                wavFile == TypedArraySet(w1, padded, Len(header.bytes))
            IN Returned("audio/wav", wavFile)

\* mutant: the Blob is built without its options, so with an empty type
pcmToWavBlobUntyped(base64, arguments) ==
  LET sampleRate == SampleRateParam(arguments)
      pcmData == base64ToUint8Array(base64)
  IN IF pcmData.kind = "threw"
       THEN pcmData
       ELSE LET header == createWavHeader(Len(pcmData.bytes), sampleRate, 1, 16)
                w0 == ZeroBytes(Len(header.bytes) + Len(pcmData.bytes))
                w1 == TypedArraySet(w0, header.bytes, 0)
                wavFile == TypedArraySet(w1, pcmData.bytes, Len(header.bytes))
            IN Returned("", wavFile)

pcmToWavBlob(base64, arguments) ==
  LET sampleRate == SampleRateParam(arguments)
      pcmData == base64ToUint8Array(base64)
  IN IF pcmData.kind = "threw"
       THEN pcmData
       ELSE LET header == createWavHeader(Len(pcmData.bytes), sampleRate, 1, 16)
                w0 == ZeroBytes(Len(header.bytes) + Len(pcmData.bytes))
                w1 == TypedArraySet(w0, header.bytes, 0)
                wavFile == TypedArraySet(w1, pcmData.bytes, Len(header.bytes))
            IN Returned("audio/wav", wavFile)

(***************************************************************************)
(* The App component: its state hooks, the values they start with, the     *)
(* history in localStorage and the texts, voices and replies it handles.   *)
(* A text is its trimmed content and its length in characters, an object   *)
(* URL is its number in the order of creation.                             *)
(***************************************************************************)
MAX_TTS_CHARS == 8000

\* object URLs created in one run
MaxUrls == 2

VOICES ==
  <<[id |-> "Kore", name |-> "Elena (Natural)"],
    [id |-> "Zephyr", name |-> "Sofia (Calmada)"]>>

VoiceIds == {VOICES[k].id : k \in DOMAIN VOICES}

Text(words, length) == [words |-> words, length |-> length]

EmptyText == Text("", 0)

\* !text.trim() of the handlers and buttons
Blank(text) == text.words = ""

\* what the textarea lets the user enter: at most maxLength characters
TypedTexts == {Text("hola", 4), Text("largo", MAX_TTS_CHARS)}

\* response.text of the improving model: nothing, or a text of its choosing
ImproveReplies == {EmptyText, Text("largo.", MAX_TTS_CHARS + 1)}

\* the audio part of the speech model's reply: none, PCM data in base64, or
\* a string that is no base64
SpeechReplies == {<<>>, <<"A", "A", "A", "=">>, <<"A", "!">>}

NoUrl == 0

NoError == "null"

\* JSON.stringify of a history list and JSON.parse of that string
JSONStringify(h) == [json |-> h]

JSONParse(str) == str.json

\* localStorage.getItem gives null for a key never set
NoHistoryEntry == [present |-> FALSE, value |-> JSONStringify(<<>>)]

NoVoiceEntry == [present |-> FALSE, value |-> ""]

Entry(v) == [present |-> TRUE, value |-> v]

\* the useState initial values (part_003:21-35)
InitialState ==
  [mode |-> "TRANSCRIPTION", recordingState |-> "IDLE", transcription |-> "",
   duration |-> 0,
   ttsText |-> EmptyText, selectedVoice |-> VOICES[1].id,
   isGeneratingSpeech |-> FALSE, isImprovingText |-> FALSE,
   generatedAudioUrl |-> NoUrl, history |-> <<>>, errorMsg |-> NoError]

\* getUserMedia calls made in one document
MaxStarts == 2

\* seconds the duration counter is followed for
MaxTicks == 1

\* the 25 MB limit of handleFileUpload: 25 * 1024 * 1024 bytes
MaxFileSize == 25 * 1024 * 1024

\* the files a user drops or selects: their MIME type and size
FileTypes == {"audio/mpeg", "video/mp4", "image/png"}

FileSizes == {MaxFileSize, MaxFileSize + 1}

Files == [type : FileTypes, size : FileSizes]

\* onFileSelected has not been called
NoFile == [type |-> "", size |-> 0]

\* calls of onFileSelected made in one run
MaxUploads == 2

\* response.text of the transcribing model
TranscribeReplies == {"", "hola"}

\* lines 30-33 of the service: response.text || "No transcription generated."
transcribeAudio(reply) ==
  IF reply = "" THEN "No transcription generated." ELSE reply

\* what processAudio awaits: blobToBase64 rejects or transcribeAudio throws,
\* or transcribeAudio returns a text
NotSettled == [kind |-> "none", text |-> ""]

ProcessOutcomes ==
  {[kind |-> "error", text |-> ""]} \cup
  {[kind |-> "result", text |-> transcribeAudio(r)] : r \in TranscribeReplies}

\* the messages set by setErrorMsg in the transcription handlers
MicrophoneMsg == "Could not access microphone. Please ensure permissions are granted."

TooLargeMsg == "File is too large. Please upload a file smaller than 25MB."

TranscribeFailedMsg == "Failed to transcribe audio. Please try again."

\* file.type.startsWith('audio/') || file.type.startsWith('video/')
IsAudioOrVideo(type) == type \in {"audio/mpeg", "video/mp4"}

\* the type MediaRecorder.isTypeSupported selects (part_003:91-96)
RecorderMimeTypes == {"audio/webm;codecs=opus", "audio/mp4"}

\* line 98, new MediaRecorder(stream, { mimeType }) after start(): the
\* recorder's state, whether its dataavailable and stop events are queued,
\* and the state of its stream's tracks
NewRecorder(mimeType) ==
  [state |-> "recording", stopQueued |-> FALSE, tracks |-> "live",
   mimeType |-> mimeType]

\* mediaRecorder.stop(): the recorder is inactive at once, its events follow
RecorderStop(r) == [r EXCEPT !.state = "inactive", !.stopQueued = TRUE]

\* track.stop() on every track of a recording recorder's stream: the tracks
\* end, and a recorder whose tracks have all ended stops
TracksStopped(r) ==
  [r EXCEPT !.tracks = "ended", !.state = "inactive", !.stopQueued = TRUE]

\* no getUserMedia call, no recorder, no timer, no processAudio call
RecorderNotStarted ==
  /\ pendingMedia = 0
  /\ mediaCount = 0
  /\ recorders = <<>>
  /\ mediaRecorderRef = 0
  /\ audioChunksRef = <<>>
  /\ timers = {}
  /\ timerRef = 0
  /\ timerCount = 0
  /\ processing = <<>>
  /\ isDragging = FALSE
  /\ uploads = 0
  /\ selected = NoFile
  /\ settled = NotSettled

\* a fresh document in a browser whose localStorage has neither key
AppNotLoaded ==
  /\ life = "loaded"
  /\ state = InitialState
  /\ rendered = InitialState
  /\ storage = [history |-> NoHistoryEntry, voice |-> NoVoiceEntry]
  /\ requests = <<>>
  /\ liveUrls = {}
  /\ urlCount = 0
  /\ cleanupHistory = <<>>
  /\ RecorderNotStarted

(***************************************************************************)
(* The calls.                                                              *)
(***************************************************************************)
Init ==
  /\ fn = "none"
  /\ base64Audio = <<>>
  /\ args = <<>>
  /\ outcome = NoOutcome
  /\ payload = <<>>
  /\ calls = <<>>
  /\ AppNotLoaded

CallBase64ToUint8Array ==
  /\ fn = "none"
  /\ \E b \in Base64Inputs :
       /\ base64Audio' = b
       /\ outcome' = base64ToUint8Array(b)
  /\ fn' = "base64ToUint8Array"
  /\ args' = <<>>
  /\ UNCHANGED <<payload, calls>>
  /\ UNCHANGED appVars

CallCreateWavHeader ==
  /\ fn = "none"
  /\ \E dataLength \in HdrDataLengths, sampleRate \in HdrSampleRates,
        numChannels \in HdrChannels, bitsPerSample \in HdrBits :
       /\ args' = <<dataLength, sampleRate, numChannels, bitsPerSample>>
       /\ outcome' = createWavHeader(dataLength, sampleRate, numChannels, bitsPerSample)
  /\ fn' = "createWavHeader"
  /\ base64Audio' = <<>>
  /\ UNCHANGED <<payload, calls>>
  /\ UNCHANGED appVars

CallPcmToWavBlob ==
  /\ fn = "none"
  /\ \E b \in Base64Inputs, a \in ArgLists :
       /\ base64Audio' = b
       /\ args' = a
       /\ outcome' = pcmToWavBlob(b, a)
  /\ fn' = "pcmToWavBlob"
  /\ UNCHANGED <<payload, calls>>
  /\ UNCHANGED appVars

Next ==
  \/ CallBase64ToUint8Array
  \/ CallCreateWavHeader
  \/ CallPcmToWavBlob

Spec == Init /\ [][Next]_vars

(***************************************************************************)
(* createWavHeader on numbers of any size (audioUtils.ts:38-62).  A        *)
(* JavaScript number holds every integer below 2^53 exactly; here such a   *)
(* number is two digits in base 65536, hi * 65536 + lo, so that lengths    *)
(* and rates at and beyond 2^32 are computed without loss.                 *)
(***************************************************************************)
Limb == 65536

Wide(hi, lo) == [hi |-> hi, lo |-> lo]

\* the wide number of a natural number below 2^31
WideOf(n) == Wide(n \div Limb, n % Limb)

WideAdd(a, b) ==
  Wide(a.hi + b.hi + ((a.lo + b.lo) \div Limb), (a.lo + b.lo) % Limb)

\* a times k, for a natural number k below 2^15
WideTimes(a, k) ==
  Wide(a.hi * k + ((a.lo * k) \div Limb), (a.lo * k) % Limb)

\* the integer part of a / d, for a natural number d below 2^15
WideDiv(a, d) ==
  Wide(a.hi \div d, (((a.hi % d) * Limb) + a.lo) \div d)

\* byte k (0 = least significant) of value modulo 2^32
WideByteOf(value, k) ==
  IF k = 0 THEN value.lo % 256
  ELSE IF k = 1 THEN value.lo \div 256
  ELSE IF k = 2 THEN value.hi % 256
  ELSE (value.hi \div 256) % 256

\* mutant: a value too large for the field is stored as the largest u32
setUint32WideSaturating(view, byteOffset, value, littleEndian) ==
  [i \in 1..Len(view) |->
     IF i - 1 \in byteOffset..(byteOffset + 3)
       THEN IF value.hi >= Limb
              THEN 255
              ELSE WideByteOf(value, i - 1 - byteOffset)
       ELSE view[i]] \o <<>>

setUint32Wide(view, byteOffset, value, littleEndian) ==
  [i \in 1..Len(view) |->
     IF i - 1 \in byteOffset..(byteOffset + 3)
       THEN WideByteOf(value, IF littleEndian THEN i - 1 - byteOffset
                                              ELSE 3 - (i - 1 - byteOffset))
       ELSE view[i]] \o <<>>

setUint16Wide(view, byteOffset, value, littleEndian) ==
  [i \in 1..Len(view) |->
     IF i - 1 \in byteOffset..(byteOffset + 1)
       THEN WideByteOf(value, IF littleEndian THEN i - 1 - byteOffset
                                              ELSE 1 - (i - 1 - byteOffset))
       ELSE view[i]] \o <<>>

\* createWavHeader with dataLength and sampleRate wide, numChannels and
\* bitsPerSample natural numbers below 2^7
createWavHeaderWide(dataLength, sampleRate, numChannels, bitsPerSample) ==
  LET v0  == ZeroBytes(HeaderLength)
      v1  == writeString(v0, 0, <<"R", "I", "F", "F">>)
      v2  == setUint32Wide(v1, 4, WideAdd(WideOf(36), dataLength), TRUE)
      v3  == writeString(v2, 8, <<"W", "A", "V", "E">>)
      v4  == writeString(v3, 12, <<"f", "m", "t", " ">>)
      v5  == setUint32Wide(v4, 16, WideOf(16), TRUE)
      v6  == setUint16Wide(v5, 20, WideOf(1), TRUE)
      v7  == setUint16Wide(v6, 22, WideOf(numChannels), TRUE)
      v8  == setUint32Wide(v7, 24, sampleRate, TRUE)
      v9  == setUint32Wide(v8, 28,
               WideDiv(WideTimes(sampleRate, numChannels * bitsPerSample), 8), TRUE)
      v10 == setUint16Wide(v9, 32, WideOf(BlockAlignOf(numChannels, bitsPerSample)), TRUE)
      v11 == setUint16Wide(v10, 34, WideOf(bitsPerSample), TRUE)
      v12 == writeString(v11, 36, <<"d", "a", "t", "a">>)
      v13 == setUint32Wide(v12, 40, dataLength, TRUE)
  IN Returned("Uint8Array", v13)

\* payload lengths around 2^31 and 2^32 - 37, the largest whose ChunkSize fits
WideDataLengths ==
  {Wide(0, 0), Wide(0, 1), Wide(0, 48000), Wide(32767, 65535), Wide(32768, 0),
   Wide(65535, 65498), Wide(65535, 65499), Wide(65535, 65500),
   Wide(65535, 65535), Wide(65536, 0), Wide(65536, 1), Wide(131072, 0)}

\* sample rates around 2^31, the first whose ByteRate does not fit, and 2^32
WideSampleRates ==
  {Wide(0, 0), Wide(0, 8000), Wide(0, 24000), Wide(0, 44100),
   Wide(32767, 65535), Wide(32768, 0), Wide(32768, 1), Wide(65535, 65535),
   Wide(65536, 0), Wide(65536, 24000)}

\* line 79: createWavHeader(pcmData.length, sampleRate, 1, 16)
CallCreateWavHeaderWide ==
  /\ fn = "none"
  /\ \E dataLength \in WideDataLengths, sampleRate \in WideSampleRates :
       /\ args' = <<dataLength, sampleRate, 1, 16>>
       /\ outcome' = createWavHeaderWide(dataLength, sampleRate, 1, 16)
  /\ fn' = "createWavHeader"
  /\ UNCHANGED <<base64Audio, payload, calls>>
  /\ UNCHANGED appVars

NextWide == CallCreateWavHeaderWide

SpecWide == Init /\ [][NextWide]_vars

(***************************************************************************)
(* Several pcmToWavBlob calls in progress at once, each advancing statement *)
(* by statement over its own local constants (audioUtils.ts:75-86).         *)
(***************************************************************************)
NewCall(b, a) ==
  [pc |-> "start", base64 |-> b, arguments |-> a, pcmData |-> <<>>,
   header |-> <<>>, wavFile |-> <<>>, result |-> NoOutcome]

InitCalls ==
  /\ fn = "none"
  /\ base64Audio = <<>>
  /\ args = <<>>
  /\ outcome = NoOutcome
  /\ payload = <<>>
  /\ calls \in [1..NumCalls -> {NewCall(b, a) : b \in CallInputs, a \in CallArgLists}]
  /\ AppNotLoaded

\* mutant: pcmData is one buffer shared by all the calls in progress
DecodeStepShared(cs, i) ==
  LET decoded == base64ToUint8Array(cs[i].base64)
  IN IF decoded.kind = "threw"
       THEN [cs EXCEPT ![i].pc = "done", ![i].result = decoded]
       ELSE [j \in DOMAIN cs |->
               IF j = i
                 THEN [cs[j] EXCEPT !.pc = "decoded", !.pcmData = decoded.bytes]
                 ELSE [cs[j] EXCEPT !.pcmData = decoded.bytes]]

\* line 75: const pcmData = base64ToUint8Array(base64Audio), which may throw
DecodeStep(cs, i) ==
  LET decoded == base64ToUint8Array(cs[i].base64)
  IN IF decoded.kind = "threw"
       THEN [cs EXCEPT ![i].pc = "done", ![i].result = decoded]
       ELSE [cs EXCEPT ![i].pc = "decoded", ![i].pcmData = decoded.bytes]

\* line 79: const header = createWavHeader(pcmData.length, sampleRate, 1, 16)
HeaderStep(cs, i) ==
  [cs EXCEPT ![i].pc = "header",
             ![i].header = createWavHeader(Len(cs[i].pcmData),
                             SampleRateParam(cs[i].arguments), 1, 16).bytes]

\* lines 82-84: the buffer, the header at 0 and the data after it
CombineStep(cs, i) ==
  LET w0 == ZeroBytes(Len(cs[i].header) + Len(cs[i].pcmData))
      w1 == TypedArraySet(w0, cs[i].header, 0)
  IN [cs EXCEPT ![i].pc = "combined",
                ![i].wavFile = TypedArraySet(w1, cs[i].pcmData, Len(cs[i].header))]

\* line 86: return new Blob([wavFile], { type: 'audio/wav' })
ReturnStep(cs, i) ==
  [cs EXCEPT ![i].pc = "done", ![i].result = Returned("audio/wav", cs[i].wavFile)]

Decode(i) ==
  /\ calls[i].pc = "start"
  /\ calls' = DecodeStep(calls, i)
  /\ UNCHANGED <<fn, base64Audio, args, outcome, payload>>
  /\ UNCHANGED appVars

BuildHeader(i) ==
  /\ calls[i].pc = "decoded"
  /\ calls' = HeaderStep(calls, i)
  /\ UNCHANGED <<fn, base64Audio, args, outcome, payload>>
  /\ UNCHANGED appVars

Combine(i) ==
  /\ calls[i].pc = "header"
  /\ calls' = CombineStep(calls, i)
  /\ UNCHANGED <<fn, base64Audio, args, outcome, payload>>
  /\ UNCHANGED appVars

ReturnBlob(i) ==
  /\ calls[i].pc = "combined"
  /\ calls' = ReturnStep(calls, i)
  /\ UNCHANGED <<fn, base64Audio, args, outcome, payload>>
  /\ UNCHANGED appVars

NextCalls ==
  \E i \in 1..NumCalls :
    \/ Decode(i)
    \/ BuildHeader(i)
    \/ Combine(i)
    \/ ReturnBlob(i)

SpecCalls == InitCalls /\ [][NextCalls]_vars

(***************************************************************************)
(* Decoding what the matching encoder produced.                            *)
(***************************************************************************)
CallDecodeOfEncoded ==
  /\ fn = "none"
  /\ \E P \in Payloads :
       /\ payload' = P
       /\ base64Audio' = Base64Encode(P)
       /\ outcome' = base64ToUint8Array(Base64Encode(P))
  /\ fn' = "base64ToUint8Array"
  /\ args' = <<>>
  /\ UNCHANGED calls
  /\ UNCHANGED appVars

NextRoundTrip == CallDecodeOfEncoded

SpecRoundTrip == Init /\ [][NextRoundTrip]_vars

(***************************************************************************)
(* The App component's effects and text-to-speech handlers (part_003).     *)
(* state holds the hooks' values with every update applied, rendered the   *)
(* values of the last render, which the handlers and effects of that       *)
(* render close over.  An update made in a click handler is rendered, and  *)
(* its effects run, before the next event; an update made in an effect or  *)
(* after an await is rendered by a later task (Render).                    *)
(***************************************************************************)
\* lines 43-57: the load effect's updates, given what localStorage holds
LoadEffect(st, sto) ==
  LET withHistory ==
        IF sto.history.present
          THEN [st EXCEPT !.history = JSONParse(sto.history.value)]
          ELSE st
  IN IF sto.voice.present /\ sto.voice.value \in VoiceIds
       THEN [withHistory EXCEPT !.selectedVoice = sto.voice.value]
       ELSE withHistory

\* lines 60-66: the save effects of the first render
SaveOnMount(st) ==
  [history |-> Entry(JSONStringify(st.history)), voice |-> Entry(st.selectedVoice)]

\* lines 60-66: the save effects of a later render, each run when its
\* dependency differs from the one of the render before
SaveEffects(before, after, sto) ==
  [history |-> IF after.history # before.history
                 THEN Entry(JSONStringify(after.history))
                 ELSE sto.history,
   voice |-> IF after.selectedVoice # before.selectedVoice
               THEN Entry(after.selectedVoice)
               ELSE sto.voice]

\* VOICES.find(v => v.name === item.voiceName): its index, 0 when there is none
VoiceNamed(name) ==
  IF \E k \in DOMAIN VOICES : VOICES[k].name = name
    THEN CHOOSE k \in DOMAIN VOICES : VOICES[k].name = name
    ELSE 0

\* VOICES.find(v => v.id === selectedVoice)?.name || 'Unknown'
VoiceNameOf(id) ==
  IF \E k \in DOMAIN VOICES : VOICES[k].id = id
    THEN VOICES[CHOOSE k \in DOMAIN VOICES : VOICES[k].id = id].name
    ELSE "Unknown"

SpeechRequest(text, voice) == [kind |-> "speech", text |-> text, voice |-> voice]

ImproveRequest(text) == [kind |-> "improve", text |-> text, voice |-> ""]

\* mutant: handleGenerateSpeech without its first line, the blank-text return
handleGenerateSpeechUnchecked(st, c) ==
  [st EXCEPT !.isGeneratingSpeech = TRUE, !.errorMsg = NoError]

\* lines 181-188: handleGenerateSpeech up to its await, run in the render
\* whose values are c: the updates it makes to st and the request it sends
handleGenerateSpeechUpdates(st, c) ==
  IF Blank(c.ttsText)
    THEN st
    ELSE [st EXCEPT !.isGeneratingSpeech = TRUE, !.errorMsg = NoError]

handleGenerateSpeechSent(c) ==
  IF Blank(c.ttsText)
    THEN <<>>
    ELSE <<SpeechRequest(c.ttsText, c.selectedVoice)>>

\* lines 244-246 and 259-261: setTtsText(item.text) and the voice, if found
LoadItem(st, item) ==
  LET k == VoiceNamed(item.voiceName)
  IN [st EXCEPT !.ttsText = item.text,
                !.selectedVoice = IF k # 0 THEN VOICES[k].id ELSE @]

IsSpeechRequest(r) == r.kind = "speech"

\* speech requests still to be answered
SpeechPending == Len(SelectSeq(requests, IsSpeechRequest))

\* object URLs are created for at most MaxUrls requests
CanRequestSpeech == urlCount + SpeechPending < MaxUrls

RemoveAt(seq, k) == SubSeq(seq, 1, k - 1) \o SubSeq(seq, k + 1, Len(seq))

\* a handler called by a user event: it runs in the last render, and its
\* updates are rendered with their effects before the next event
Handle(newState, sent) ==
  /\ life = "mounted"
  /\ state = rendered
  /\ state' = newState
  /\ rendered' = newState
  /\ storage' = SaveEffects(rendered, newState, storage)
  /\ requests' = requests \o sent
  /\ UNCHANGED <<life, liveUrls, urlCount, cleanupHistory>>
  /\ UNCHANGED recVars
  /\ UNCHANGED wavVars

\* the first render and its effects: load, save, save, cleanup registered
Mount ==
  /\ life = "loaded"
  /\ life' = "mounted"
  /\ rendered' = InitialState
  /\ state' = LoadEffect(InitialState, storage)
  /\ storage' = SaveOnMount(InitialState)
  /\ cleanupHistory' = InitialState.history
  /\ UNCHANGED <<requests, liveUrls, urlCount>>
  /\ UNCHANGED recVars
  /\ UNCHANGED wavVars

\* the render of updates made by an effect or after an await, and its effects
Render ==
  /\ life = "mounted"
  /\ state # rendered
  /\ rendered' = state
  /\ storage' = SaveEffects(rendered, state, storage)
  /\ UNCHANGED <<life, state, requests, liveUrls, urlCount, cleanupHistory>>
  /\ UNCHANGED recVars
  /\ UNCHANGED wavVars

\* line 324: the panel shown is the one of the rendered mode
TranscriptionPanel == rendered.mode = "TRANSCRIPTION"

TtsPanel == rendered.mode = "TEXT_TO_SPEECH"

\* lines 291 and 301: the two buttons of the mode switcher; leaving the
\* transcription panel unmounts its FileUploader
SetMode ==
  \E m \in {"TRANSCRIPTION", "TEXT_TO_SPEECH"} :
    /\ life = "mounted"
    /\ state = rendered
    /\ state' = [state EXCEPT !.mode = m, !.errorMsg = NoError]
    /\ rendered' = state'
    /\ storage' = SaveEffects(rendered, state', storage)
    /\ isDragging' = IF m = "TRANSCRIPTION" THEN isDragging ELSE FALSE
    /\ UNCHANGED <<life, requests, liveUrls, urlCount, cleanupHistory>>
    /\ UNCHANGED <<pendingMedia, mediaCount, recorders, mediaRecorderRef,
                   audioChunksRef, timers, timerRef, timerCount, processing,
                   uploads, selected, settled>>
    /\ UNCHANGED wavVars

\* line 461: the textarea's onChange
ChangeText ==
  \E t \in TypedTexts :
    /\ TtsPanel
    /\ t.length <= MAX_TTS_CHARS
    /\ Handle([state EXCEPT !.ttsText = t], <<>>)

\* line 506: the select's onChange
ChangeVoice ==
  \E v \in VoiceIds :
    /\ TtsPanel
    /\ v # rendered.selectedVoice
    /\ Handle([state EXCEPT !.selectedVoice = v], <<>>)

\* lines 265-268, the button shown when ttsText.length > 0
ClickClear ==
  /\ TtsPanel
  /\ rendered.ttsText.length > 0
  /\ Handle([state EXCEPT !.ttsText = EmptyText, !.generatedAudioUrl = NoUrl],
            <<>>)

\* line 522: the generate button, disabled while generating or on blank text
ClickGenerate ==
  /\ TtsPanel
  /\ ~rendered.isGeneratingSpeech
  /\ ~Blank(rendered.ttsText)
  /\ CanRequestSpeech
  /\ Handle(handleGenerateSpeechUpdates(state, rendered),
            handleGenerateSpeechSent(rendered))

\* lines 215-218: the improve button, disabled while improving or on blank text
ClickImprove ==
  /\ TtsPanel
  /\ ~rendered.isImprovingText
  /\ ~Blank(rendered.ttsText)
  /\ Handle([state EXCEPT !.isImprovingText = TRUE],
            <<ImproveRequest(rendered.ttsText)>>)

\* lines 237-256: playHistoryItem, by a click on the k-th history row
ClickHistoryItem ==
  \E k \in 1..Len(rendered.history) :
    /\ TtsPanel
    /\ k <= 10
    /\ Handle([LoadItem(state, rendered.history[k]) EXCEPT
                 !.generatedAudioUrl = rendered.history[k].audioUrl],
              <<>>)

\* lines 258-263: handleRegenerateFromHistory, by the regenerate button of
\* the k-th history row; its handleGenerateSpeech is the one of the render
handleRegenerateFromHistory(k) ==
  /\ TtsPanel
  /\ k \in 1..Len(rendered.history)
  /\ k <= 10
  /\ CanRequestSpeech
  /\ Handle(handleGenerateSpeechUpdates(LoadItem(state, rendered.history[k]), rendered),
            handleGenerateSpeechSent(rendered))

ClickRegenerate == \E k \in 1..MaxUrls : handleRegenerateFromHistory(k)

\* lines 188-212: handleGenerateSpeech after its await, for one request and
\* one reply of the speech model; an unmounted component's updates are
\* dropped
SpeechResponds ==
  \E k \in 1..Len(requests), reply \in SpeechReplies :
    /\ requests[k].kind = "speech"
    /\ LET r == requests[k]
           wavBlob == IF reply = <<>>
                        THEN Threw("Error")
                        ELSE pcmToWavBlob(reply, <<>>)
           ok == wavBlob.kind = "returned"
           audioUrl == urlCount + 1
           newItem == [text |-> r.text, audioUrl |-> audioUrl,
                       voiceName |-> VoiceNameOf(r.voice)]
       IN /\ urlCount' = IF ok THEN audioUrl ELSE urlCount
          /\ liveUrls' = IF ok THEN liveUrls \cup {audioUrl} ELSE liveUrls
          /\ state' =
               IF life # "mounted"
                 THEN state
                 ELSE IF ok
                   THEN [state EXCEPT !.generatedAudioUrl = audioUrl,
                                      !.history = <<newItem>> \o @,
                                      !.isGeneratingSpeech = FALSE]
                   ELSE [state EXCEPT !.errorMsg = "Failed to generate speech.",
                                      !.isGeneratingSpeech = FALSE]
    /\ requests' = RemoveAt(requests, k)
    /\ UNCHANGED <<life, rendered, storage, cleanupHistory>>
    /\ UNCHANGED recVars
    /\ UNCHANGED wavVars

\* lines 218-225: handleImproveText after its await; the service returns
\* response.text || text, or throws
ImproveResponds ==
  \E k \in 1..Len(requests), reply \in ImproveReplies, failed \in BOOLEAN :
    /\ requests[k].kind = "improve"
    /\ LET improved == IF reply.length = 0 THEN requests[k].text ELSE reply
       IN state' =
            IF life # "mounted"
              THEN state
              ELSE IF failed
                THEN [state EXCEPT !.errorMsg = "Failed to improve text.",
                                   !.isImprovingText = FALSE]
                ELSE [state EXCEPT !.ttsText = improved,
                                   !.isImprovingText = FALSE]
    /\ requests' = RemoveAt(requests, k)
    /\ UNCHANGED <<life, rendered, storage, liveUrls, urlCount, cleanupHistory>>
    /\ UNCHANGED recVars
    /\ UNCHANGED wavVars

\* lines 270-280: the component is unmounted and the cleanup registered by
\* the first render runs, over the history that render closed over
Unmount ==
  /\ life = "mounted"
  /\ life' = "unmounted"
  /\ timers' = timers \ {timerRef}
  /\ timerRef' = 0
  /\ recorders' = [i \in DOMAIN recorders |->
                     IF i = mediaRecorderRef /\ recorders[i].state # "inactive"
                     THEN TracksStopped(recorders[i])
                     ELSE recorders[i]] \o <<>>
  /\ liveUrls' = liveUrls \ {cleanupHistory[i].audioUrl : i \in DOMAIN cleanupHistory}
  /\ state' = InitialState
  /\ rendered' = InitialState
  /\ isDragging' = FALSE
  /\ UNCHANGED <<storage, requests, urlCount, cleanupHistory>>
  /\ UNCHANGED <<pendingMedia, mediaCount, mediaRecorderRef, audioChunksRef,
                 timerCount, processing, uploads, selected, settled>>
  /\ UNCHANGED wavVars

\* the page is reloaded or reopened: the document, its object URLs and its
\* pending requests are gone, localStorage stays
Reload ==
  /\ life \in {"mounted", "unmounted"}
  /\ life' = "loaded"
  /\ state' = InitialState
  /\ rendered' = InitialState
  /\ requests' = <<>>
  /\ liveUrls' = {}
  /\ cleanupHistory' = <<>>
  /\ pendingMedia' = 0
  /\ recorders' = <<>>
  /\ mediaRecorderRef' = 0
  /\ audioChunksRef' = <<>>
  /\ timers' = {}
  /\ timerRef' = 0
  /\ processing' = <<>>
  /\ isDragging' = FALSE
  /\ UNCHANGED <<storage, urlCount, mediaCount, timerCount, uploads, selected,
                 settled>>
  /\ UNCHANGED wavVars

NextApp ==
  \/ Mount
  \/ Render
  \/ SetMode
  \/ ChangeText
  \/ ChangeVoice
  \/ ClickClear
  \/ ClickGenerate
  \/ ClickImprove
  \/ ClickHistoryItem
  \/ ClickRegenerate
  \/ SpeechResponds
  \/ ImproveResponds
  \/ Unmount
  \/ Reload

SpecApp == Init /\ [][NextApp]_vars

(***************************************************************************)
(* The transcription panel of App: recording, file upload, processAudio.   *)
(***************************************************************************)

\* a handler of the transcription panel run by a click, a drop or a file
\* selection in a mounted App: its updates, the render and the save effects
HandleRec(newState) ==
  /\ life = "mounted"
  /\ state = rendered
  /\ TranscriptionPanel
  /\ state' = newState
  /\ rendered' = newState
  /\ storage' = SaveEffects(rendered, newState, storage)
  /\ UNCHANGED <<life, requests, liveUrls, urlCount, cleanupHistory>>
  /\ UNCHANGED wavVars

\* an update made after an await or by a timer: dropped once unmounted
AsyncUpdate(newState) ==
  /\ state' = IF life = "mounted" THEN newState ELSE state
  /\ UNCHANGED <<life, rendered, storage, requests, liveUrls, urlCount,
                 cleanupHistory>>
  /\ UNCHANGED wavVars

\* a processAudio call that awaits blobToBase64 and transcribeAudio
ProcessAudioCall(source, mimeType) == [source |-> source, mimeType |-> mimeType]

\* lines 84-89 and 348-356: a click on the start button, shown when
\* recordingState is IDLE, COMPLETED or ERROR; handleStartRecording up to
\* its await of getUserMedia
ClickStart ==
  /\ rendered.recordingState \in {"IDLE", "COMPLETED", "ERROR"}
  /\ mediaCount < MaxStarts
  /\ HandleRec([state EXCEPT !.errorMsg = NoError, !.transcription = ""])
  /\ pendingMedia' = pendingMedia + 1
  /\ mediaCount' = mediaCount + 1
  /\ UNCHANGED <<recorders, mediaRecorderRef, audioChunksRef, timers, timerRef,
                 timerCount, processing, isDragging, uploads, selected, settled>>

\* lines 68-73, startTimer: setDuration(0) and a new interval in timerRef
startTimer ==
  /\ timerCount' = timerCount + 1
  /\ timers' = timers \cup {timerCount + 1}
  /\ timerRef' = timerCount + 1

\* lines 75-80, stopTimer: the interval in timerRef, if any, is cleared
stopTimer ==
  /\ timers' = timers \ {timerRef}
  /\ timerRef' = 0

\* lines 89-125: getUserMedia settles and handleStartRecording goes on. With
\* a stream it creates and starts a recorder, puts it in mediaRecorderRef,
\* empties audioChunksRef and starts the timer; without one it reports the
\* error
MediaResolves ==
  /\ pendingMedia > 0
  /\ pendingMedia' = pendingMedia - 1
  /\ \/ \E mimeType \in RecorderMimeTypes :
          /\ recorders' = Append(recorders, NewRecorder(mimeType))
          /\ mediaRecorderRef' = Len(recorders) + 1
          /\ audioChunksRef' = <<>>
          /\ startTimer
          /\ AsyncUpdate([state EXCEPT !.recordingState = "RECORDING",
                                       !.duration = 0])
     \/ /\ AsyncUpdate([state EXCEPT !.errorMsg = MicrophoneMsg,
                                     !.recordingState = "ERROR"])
        /\ UNCHANGED <<recorders, mediaRecorderRef, audioChunksRef, timers,
                       timerRef, timerCount>>
  /\ UNCHANGED <<mediaCount, processing, isDragging, uploads, selected, settled>>

\* lines 128-132 and 357-364: a click on the stop button, shown when
\* recordingState is RECORDING
ClickStop ==
  /\ rendered.recordingState = "RECORDING"
  /\ HandleRec(state)
  /\ recorders' =
       IF mediaRecorderRef # 0 /\ recorders[mediaRecorderRef].state # "inactive"
         THEN [recorders EXCEPT ![mediaRecorderRef] = RecorderStop(@)]
         ELSE recorders
  /\ UNCHANGED <<pendingMedia, mediaCount, mediaRecorderRef, audioChunksRef,
                 timers, timerRef, timerCount, processing, isDragging,
                 uploads, selected, settled>>

\* lines 102-115: the dataavailable and stop events of a stopped recorder.
\* ondataavailable pushes a chunk that is not empty; onstop stops the timer,
\* builds the blob, stops the tracks and calls processAudio, which sets
\* PROCESSING and awaits
RecorderStopped ==
  \E i \in DOMAIN recorders, hasData \in BOOLEAN :
    /\ recorders[i].stopQueued
    /\ recorders' = [recorders EXCEPT ![i].stopQueued = FALSE,
                                      ![i].tracks = "ended"]
    /\ audioChunksRef' = IF hasData THEN Append(audioChunksRef, i)
                                    ELSE audioChunksRef
    /\ stopTimer
    /\ processing' = Append(processing,
                            ProcessAudioCall("recorder", recorders[i].mimeType))
    /\ AsyncUpdate([state EXCEPT !.recordingState = "PROCESSING"])
    /\ UNCHANGED <<pendingMedia, mediaCount, mediaRecorderRef, timerCount,
                   isDragging, uploads, selected, settled>>

\* lines 70-72: an interval fires, setDuration(prev => prev + 1)
Tick ==
  /\ life = "mounted"
  /\ timers # {}
  /\ state.duration < MaxTicks
  /\ AsyncUpdate([state EXCEPT !.duration = @ + 1])
  /\ UNCHANGED recVars

\* mutant: the limit is inclusive
TooLargeInclusive(file) == file.size >= MaxFileSize

\* line 138: file.size > 25 * 1024 * 1024
TooLarge(file) == file.size > MaxFileSize

\* lines 134-151 and 153-155: handleFileUpload(file), called as
\* onFileSelected, up to the await in processAudio
handleFileUpload(file) ==
  LET cleared == [state EXCEPT !.errorMsg = NoError, !.transcription = ""]
  IN /\ uploads < MaxUploads
     /\ uploads' = uploads + 1
     /\ selected' = file
     /\ IF TooLarge(file)
          THEN /\ HandleRec([cleared EXCEPT !.errorMsg = TooLargeMsg])
               /\ processing' = processing
          ELSE /\ HandleRec([cleared EXCEPT !.recordingState = "PROCESSING"])
               /\ processing' = Append(processing,
                                       ProcessAudioCall("upload", file.type))
     /\ UNCHANGED <<pendingMedia, mediaCount, recorders, mediaRecorderRef,
                    audioChunksRef, timers, timerRef, timerCount, settled>>

\* line 380: disabled={recordingState === RECORDING || PROCESSING}
Disabled == rendered.recordingState \in {"RECORDING", "PROCESSING"}

\* the FileUploader alone changes its isDragging; App renders nothing new
UploaderOnly ==
  /\ life = "mounted"
  /\ state = rendered
  /\ TranscriptionPanel
  /\ UNCHANGED <<life, state, rendered, storage, requests, liveUrls, urlCount,
                 cleanupHistory>>
  /\ UNCHANGED <<pendingMedia, mediaCount, recorders, mediaRecorderRef,
                 audioChunksRef, timers, timerRef, timerCount, processing,
                 uploads, selected, settled>>
  /\ UNCHANGED wavVars

\* FileUploader.tsx:11-14, handleDragOver
DragOver ==
  /\ UploaderOnly
  /\ isDragging' = IF ~Disabled THEN TRUE ELSE isDragging

\* FileUploader.tsx:16-19, handleDragLeave
DragLeave ==
  /\ UploaderOnly
  /\ isDragging' = FALSE

\* FileUploader.tsx:21-34, handleDrop: a file of another type is answered
\* with an alert
Drop ==
  \E file \in Files :
    /\ isDragging' = FALSE
    /\ IF ~Disabled /\ IsAudioOrVideo(file.type)
         THEN handleFileUpload(file)
         ELSE UploaderOnly

\* FileUploader.tsx:36-40 and 56-62, handleFileInput: the change event of
\* the file input, which a disabled input does not fire; accept="audio/*,
\* video/*" filters what the file dialog shows first, not what can be chosen
SelectFile ==
  \E file \in Files :
    /\ ~Disabled
    /\ handleFileUpload(file)
    /\ isDragging' = isDragging

\* mutant: processAudio without its catch
processAudioUncaught(st, awaited) ==
  IF awaited.kind = "result"
    THEN [st EXCEPT !.transcription = awaited.text,
                    !.recordingState = "COMPLETED"]
    ELSE st

\* lines 156-163: processAudio after its awaits
processAudioSettled(st, awaited) ==
  IF awaited.kind = "result"
    THEN [st EXCEPT !.transcription = awaited.text,
                    !.recordingState = "COMPLETED"]
    ELSE [st EXCEPT !.errorMsg = TranscribeFailedMsg,
                    !.recordingState = "ERROR"]

\* blobToBase64 and transcribeAudio settle for one processAudio call
ProcessAudioSettles ==
  \E k \in DOMAIN processing, awaited \in ProcessOutcomes :
    /\ processing' = RemoveAt(processing, k)
    /\ settled' = awaited
    /\ AsyncUpdate(processAudioSettled(state, awaited))
    /\ UNCHANGED <<pendingMedia, mediaCount, recorders, mediaRecorderRef,
                   audioChunksRef, timers, timerRef, timerCount, isDragging,
                   uploads, selected>>

\* lines 172-177 and 391-425: handleResetTranscription, by the button of the
\* result panel, shown when there is a transcription or the state is
\* COMPLETED
ClickReset ==
  /\ rendered.transcription # "" \/ rendered.recordingState = "COMPLETED"
  /\ HandleRec([state EXCEPT !.recordingState = "IDLE", !.transcription = "",
                             !.duration = 0, !.errorMsg = NoError])
  /\ UNCHANGED recVars

NextRecorder ==
  \/ Mount
  \/ Render
  \/ SetMode
  \/ ClickStart
  \/ MediaResolves
  \/ ClickStop
  \/ RecorderStopped
  \/ Tick
  \/ DragOver
  \/ DragLeave
  \/ Drop
  \/ SelectFile
  \/ ProcessAudioSettles
  \/ ClickReset
  \/ Unmount
  \/ Reload

SpecRecorder == Init /\ [][NextRecorder]_vars

(***************************************************************************)
(* Reading a container back, independently of the writers.                 *)
(***************************************************************************)
U16LE(b, off) == b[off + 1] + 256 * b[off + 2]

U32LE(b, off) ==
  b[off + 1] + 256 * b[off + 2] + 65536 * b[off + 3] + 16777216 * b[off + 4]

\* the same fields read as two's-complement numbers: the stored value of a
\* negative argument, taken modulo the field width
S16LE(b, off) ==
  b[off + 1] + 256 * (IF b[off + 2] >= 128 THEN b[off + 2] - 256 ELSE b[off + 2])

S32LE(b, off) ==
  b[off + 1] + 256 * b[off + 2] + 65536 * b[off + 3]
    + 16777216 * (IF b[off + 4] >= 128 THEN b[off + 4] - 256 ELSE b[off + 4])

BytesAt(b, off, n) == SubSeq(b, off + 1, off + n)

\* the four base-256 digits of a number below 2^31, least significant
\* first: the bytes of its little-endian unsigned 32-bit form
Digits256(v) ==
  <<v % 256, (v \div 256) % 256, (v \div 65536) % 256, (v \div 16777216) % 256>>

\* the call was pcmToWavBlob and it returned a container
ContainerReturned == fn = "pcmToWavBlob" /\ outcome.kind = "returned"

\* the payload the input decodes to
DecodedPayload == base64ToUint8Array(base64Audio).bytes

\* the sample rate the call asked for
RequestedSampleRate == IF args = <<>> THEN 24000 ELSE args[1]

(***************************************************************************)
(* The claims.                                                             *)
(***************************************************************************)
\* C1: for every base64 input that decodes to a byte sequence P,
\* pcmToWavBlob returns a container of exactly 44 + len(P) bytes whose bytes
\* from offset 44 to the end equal P, byte for byte and in order.
C1_PayloadIntegrity ==
  (fn = "pcmToWavBlob" /\ base64ToUint8Array(base64Audio).kind = "returned") =>
    /\ outcome.kind = "returned"
    /\ Len(outcome.bytes) = 44 + Len(DecodedPayload)
    /\ SubSeq(outcome.bytes, 45, Len(outcome.bytes)) = DecodedPayload

\* a container with a five-byte payload of two groups whose bytes differ
C1_Witness ==
  /\ ContainerReturned
  /\ Len(outcome.bytes) = 49
  /\ outcome.bytes[45] = 255
  /\ outcome.bytes[48] # outcome.bytes[49]

\* C2: every returned container (and every header createWavHeader returns)
\* has "RIFF" at 0..3, "WAVE" at 8..11, "fmt " at 12..15 and "data" at
\* 36..39, whatever the payload and the sample rate.
C2_FixedTags ==
  (fn \in {"pcmToWavBlob", "createWavHeader"} /\ outcome.kind = "returned") =>
    /\ BytesAt(outcome.bytes, 0, 4) = <<82, 73, 70, 70>>
    /\ BytesAt(outcome.bytes, 8, 4) = <<87, 65, 86, 69>>
    /\ BytesAt(outcome.bytes, 12, 4) = <<102, 109, 116, 32>>
    /\ BytesAt(outcome.bytes, 36, 4) = <<100, 97, 116, 97>>

\* a container with a payload, built at a sample rate other than the default
C2_Witness ==
  /\ ContainerReturned
  /\ Len(args) = 1 /\ args[1] = 44100
  /\ Len(outcome.bytes) > 44

\* C3: for every input with payload P, the little-endian u32 at offset 4 is
\* 36 + len(P) and the little-endian u32 at offset 40 is len(P).
C3_SizeFields ==
  ContainerReturned =>
    /\ BytesAt(outcome.bytes, 4, 4) = Digits256(36 + Len(DecodedPayload))
    /\ BytesAt(outcome.bytes, 40, 4) = Digits256(Len(DecodedPayload))

\* a container whose payload has three bytes
C3_Witness ==
  /\ ContainerReturned
  /\ Len(DecodedPayload) = 3
  /\ U32LE(outcome.bytes, 40) = 3

\* C4: ByteRate (u32 LE at 28) is sampleRate * channelCount * bitsPerSample/8
\* and BlockAlign (u16 LE at 32) is channelCount * bitsPerSample/8; 48,000
\* zero bytes at the default profile give a 48,044-byte container with
\* ByteRate 48,000 and BlockAlign 2.
C4_ByteRateBlockAlign ==
  /\ ContainerReturned =>
       /\ U32LE(outcome.bytes, 28) = (RequestedSampleRate * 1 * 16) \div 8
       /\ U16LE(outcome.bytes, 32) = (1 * 16) \div 8
  /\ (fn = "createWavHeader" /\ args[2] > 0 /\ args[3] > 0
        /\ args[4] > 0 /\ args[4] % 8 = 0) =>
       /\ U32LE(outcome.bytes, 28) = (args[2] * args[3] * args[4]) \div 8
       /\ U16LE(outcome.bytes, 32) = (args[3] * args[4]) \div 8
  /\ (fn = "pcmToWavBlob" /\ args = <<>> /\ Len(base64Audio) = 64000
        /\ \A i \in 1..64000 : base64Audio[i] = "A") =>
       /\ outcome.kind = "returned"
       /\ Len(outcome.bytes) = 48044
       /\ \A i \in 45..48044 : outcome.bytes[i] = 0
       /\ U32LE(outcome.bytes, 28) = 48000
       /\ U16LE(outcome.bytes, 32) = 2

\* the 48,000 zero bytes assembled at the default profile
C4_Witness ==
  /\ ContainerReturned
  /\ args = <<>>
  /\ Len(outcome.bytes) = 48044
  /\ U32LE(outcome.bytes, 40) = 48000

\* C5: createWavHeader writes, little-endian and each at its offset,
\* Subchunk1Size 16 at 16, AudioFormat 1 at 20, NumChannels at 22, SampleRate
\* at 24 and BitsPerSample at 34, and no field overwrites another: all
\* thirteen fields of the 44 bytes hold their values together.
C5_HeaderLayout ==
  (fn = "createWavHeader" /\ args[1] >= 0 /\ args[2] > 0 /\ args[3] > 0
     /\ args[4] > 0 /\ args[4] % 8 = 0) =>
    /\ outcome.kind = "returned"
    /\ Len(outcome.bytes) = 44
    /\ BytesAt(outcome.bytes, 0, 4) = <<82, 73, 70, 70>>
    /\ U32LE(outcome.bytes, 4) = 36 + args[1]
    /\ BytesAt(outcome.bytes, 8, 4) = <<87, 65, 86, 69>>
    /\ BytesAt(outcome.bytes, 12, 4) = <<102, 109, 116, 32>>
    /\ BytesAt(outcome.bytes, 16, 4) = <<16, 0, 0, 0>>
    /\ BytesAt(outcome.bytes, 20, 2) = <<1, 0>>
    /\ U16LE(outcome.bytes, 22) = args[3]
    /\ U32LE(outcome.bytes, 24) = args[2]
    /\ U32LE(outcome.bytes, 28) = (args[2] * args[3] * args[4]) \div 8
    /\ U16LE(outcome.bytes, 32) = (args[3] * args[4]) \div 8
    /\ U16LE(outcome.bytes, 34) = args[4]
    /\ BytesAt(outcome.bytes, 36, 4) = <<100, 97, 116, 97>>
    /\ U32LE(outcome.bytes, 40) = args[1]

\* a header for 2 channels of 24 bits at 44,100 Hz, whose fields all differ
C5_Witness ==
  /\ fn = "createWavHeader"
  /\ args = <<3, 44100, 2, 24>>
  /\ outcome.kind = "returned"
  /\ BytesAt(outcome.bytes, 24, 4) = <<68, 172, 0, 0>>

\* C6: with no format profile given, the header describes 24,000 Hz, 1
\* channel and 16 bits per sample.
C6_DefaultProfile ==
  (ContainerReturned /\ args = <<>>) =>
    /\ U32LE(outcome.bytes, 24) = 24000
    /\ U16LE(outcome.bytes, 22) = 1
    /\ U16LE(outcome.bytes, 34) = 16

\* a container built from a payload with no argument after the input
C6_Witness ==
  /\ ContainerReturned
  /\ args = <<>>
  /\ Len(outcome.bytes) = 46

\* C7 as stated: a caller may override each of sampleRate, channelCount and
\* bitsPerSample, and NumChannels, SampleRate, ByteRate, BlockAlign and
\* BitsPerSample of the returned container reflect the overridden values.
C7_OverridesReflected ==
  ContainerReturned =>
    LET sampleRate == IF Len(args) >= 1 THEN args[1] ELSE 24000
        channelCount == IF Len(args) >= 2 THEN args[2] ELSE 1
        bitsPerSample == IF Len(args) >= 3 THEN args[3] ELSE 16
    IN /\ U16LE(outcome.bytes, 22) = channelCount
       /\ U32LE(outcome.bytes, 24) = sampleRate
       /\ U32LE(outcome.bytes, 28) = (sampleRate * channelCount * bitsPerSample) \div 8
       /\ U16LE(outcome.bytes, 32) = (channelCount * bitsPerSample) \div 8
       /\ U16LE(outcome.bytes, 34) = bitsPerSample

\* C7 as amended: only sampleRate can be overridden. SampleRate is the given
\* rate and ByteRate twice it; NumChannels stays 1, BlockAlign 2 and
\* BitsPerSample 16 whatever else the caller passes.
C7_OnlySampleRateOverridden ==
  ContainerReturned =>
    /\ U32LE(outcome.bytes, 24) = RequestedSampleRate
    /\ U32LE(outcome.bytes, 28) = 2 * RequestedSampleRate
    /\ U16LE(outcome.bytes, 22) = 1
    /\ U16LE(outcome.bytes, 32) = 2
    /\ U16LE(outcome.bytes, 34) = 16

\* a call that asked for 44,100 Hz, 2 channels and 8 bits and got a mono
\* 16-bit header at 44,100 Hz
C7_Witness ==
  /\ ContainerReturned
  /\ args = <<44100, 2, 8>>
  /\ U32LE(outcome.bytes, 24) = 44100
  /\ U16LE(outcome.bytes, 22) = 1

\* a character that is neither of the base64 alphabet nor the padding sign
HasDisallowedChar(s) == \E i \in 1..Len(s) : s[i] \notin (B64Chars \cup {"="})

\* a "=" anywhere but in the last one or two places of a string whose
\* length is a multiple of 4
HasInvalidPadding(s) ==
  \E i \in 1..Len(s) :
    /\ s[i] = "="
    /\ \/ Len(s) % 4 # 0
       \/ i < Len(s) - 1
       \/ \E j \in (i + 1)..Len(s) : s[j] # "="

\* the call decoded its input: base64ToUint8Array itself or the assembler
DecoderCalled == fn \in {"base64ToUint8Array", "pcmToWavBlob"}

\* C8 as stated: decoding a string with a character outside the base64
\* alphabet, or with invalid padding, fails and returns no bytes, and the
\* assembler passes the error on and returns no container.
C8_MalformedInputFails ==
  (DecoderCalled /\ (HasDisallowedChar(base64Audio) \/ HasInvalidPadding(base64Audio))) =>
    /\ outcome.kind = "threw"
    /\ outcome.error = "InvalidCharacterError"
    /\ outcome.bytes = <<>>

\* the input without the ASCII whitespace atob ignores
WithoutWhitespace(s) ==
  SelectSeq(s, LAMBDA c : c \notin {" ", "\t", "\n", "\f", "\r"})

\* C8 as amended: ASCII whitespace is ignored; a string that, whitespace
\* removed, has a character outside the alphabet or invalid padding fails
\* and returns no bytes, and the assembler passes the error on.
C8_MalformedInputFailsAfterWhitespace ==
  (DecoderCalled /\ (\/ HasDisallowedChar(WithoutWhitespace(base64Audio))
                     \/ HasInvalidPadding(WithoutWhitespace(base64Audio)))) =>
    /\ outcome.kind = "threw"
    /\ outcome.error = "InvalidCharacterError"
    /\ outcome.bytes = <<>>

\* the assembler called with a misplaced "=" among whitespace, and failing
C8_Witness ==
  /\ fn = "pcmToWavBlob"
  /\ base64Audio = <<"A", " ", "A", "=">>
  /\ outcome.kind = "threw"

\* the parameters the header builder is said to reject
InvalidProfile ==
  \/ args[1] < 0 \/ args[2] <= 0 \/ args[3] <= 0 \/ args[4] <= 0
  \/ args[4] % 8 # 0

\* C9 as stated: building a header fails with InvalidFormatProfileError and
\* produces no header when sampleRate, channelCount or bitsPerSample is
\* non-positive, bitsPerSample is no multiple of 8, or payloadLength is
\* negative.
C9_InvalidProfileRejected ==
  (fn = "createWavHeader" /\ InvalidProfile) =>
    /\ outcome.kind = "threw"
    /\ outcome.error = "InvalidFormatProfileError"
    /\ outcome.bytes = <<>>

\* C9 as amended: building a header never fails. For such parameters too
\* createWavHeader returns 44 bytes with the four tags, whose fields hold the
\* arguments (products truncated toward zero) modulo the field width.
C9_InvalidProfileAccepted ==
  (fn = "createWavHeader" /\ InvalidProfile) =>
    /\ outcome.kind = "returned"
    /\ Len(outcome.bytes) = 44
    /\ BytesAt(outcome.bytes, 0, 4) = <<82, 73, 70, 70>>
    /\ BytesAt(outcome.bytes, 36, 4) = <<100, 97, 116, 97>>
    /\ S32LE(outcome.bytes, 4) = 36 + args[1]
    /\ S16LE(outcome.bytes, 22) = args[3]
    /\ S32LE(outcome.bytes, 24) = args[2]
    /\ S32LE(outcome.bytes, 28) = TruncDiv(args[2] * args[3] * args[4], 8)
    /\ S16LE(outcome.bytes, 32) = TruncDiv(args[3] * args[4], 8)
    /\ S16LE(outcome.bytes, 34) = args[4]
    /\ S32LE(outcome.bytes, 40) = args[1]

\* a header built for sampleRate = 0
C9_Witness ==
  /\ fn = "createWavHeader"
  /\ args = <<2, 0, 1, 16>>
  /\ outcome.kind = "returned"
  /\ BytesAt(outcome.bytes, 24, 8) = <<0, 0, 0, 0, 0, 0, 0, 0>>

\* the input decoded, to no bytes at all
EmptyPayload ==
  /\ fn = "pcmToWavBlob"
  /\ base64ToUint8Array(base64Audio).kind = "returned"
  /\ Len(DecodedPayload) = 0

\* C10 as stated: the assembler fails with EmptyPayloadError when the
\* decoded payload has zero length, instead of returning a header-only
\* container.
C10_EmptyPayloadRejected ==
  EmptyPayload => outcome.kind = "threw" /\ outcome.error = "EmptyPayloadError"

\* C10 as amended: for a decoded payload of zero length the assembler raises
\* no error and returns the 44-byte header-only container, with ChunkSize 36
\* and Subchunk2Size 0.
C10_EmptyPayloadGivesHeaderOnly ==
  EmptyPayload =>
    /\ outcome.kind = "returned"
    /\ outcome.type = "audio/wav"
    /\ Len(outcome.bytes) = 44
    /\ U32LE(outcome.bytes, 4) = 36
    /\ U32LE(outcome.bytes, 40) = 0

\* the empty base64 string assembled
C10_Witness ==
  /\ fn = "pcmToWavBlob"
  /\ base64Audio = <<>>
  /\ outcome.kind = "returned"
  /\ Len(outcome.bytes) = 44

\* the payload of the outcome: the decoder's bytes, or the container's bytes
\* after its 44-byte header
OutcomePayload ==
  IF fn = "pcmToWavBlob"
    THEN SubSeq(outcome.bytes, 45, Len(outcome.bytes))
    ELSE outcome.bytes

\* C11: no partial success. Every call of the assembler ends with an error
\* and no bytes, or with a complete container: the four tags, length fields
\* that agree with the bytes that follow the header, and the whole payload.
C11_NoPartialSuccess ==
  fn = "pcmToWavBlob" =>
    \/ /\ outcome.kind = "threw"
       /\ outcome.bytes = <<>>
       /\ base64ToUint8Array(base64Audio).kind = "threw"
    \/ /\ outcome.kind = "returned"
       /\ Len(outcome.bytes) >= 44
       /\ BytesAt(outcome.bytes, 0, 4) = <<82, 73, 70, 70>>
       /\ BytesAt(outcome.bytes, 8, 8) = <<87, 65, 86, 69, 102, 109, 116, 32>>
       /\ BytesAt(outcome.bytes, 36, 4) = <<100, 97, 116, 97>>
       /\ BytesAt(outcome.bytes, 4, 4) = Digits256(Len(outcome.bytes) - 8)
       /\ BytesAt(outcome.bytes, 40, 4) = Digits256(Len(outcome.bytes) - 44)
       /\ base64ToUint8Array(base64Audio).kind = "returned"
       /\ OutcomePayload = DecodedPayload

\* one call that raised and returned nothing
C11_Witness ==
  /\ fn = "pcmToWavBlob"
  /\ outcome.kind = "threw"
  /\ Len(base64Audio) = 4
  /\ base64Audio[4] = "!"

\* C13: decoding the standard base64 encoding of any byte sequence P gives
\* P again: same length, same byte values, same order.
C13_RoundTrip ==
  (fn = "base64ToUint8Array" /\ base64Audio = Base64Encode(payload)) =>
    /\ outcome.kind = "returned"
    /\ Len(outcome.bytes) = Len(payload)
    /\ \A i \in 1..Len(payload) : outcome.bytes[i] = payload[i]

\* four bytes, the high values among them, encoded with padding and decoded
C13_Witness ==
  /\ fn = "base64ToUint8Array"
  /\ payload = <<255, 128, 127, 1>>
  /\ base64Audio[8] = "="
  /\ outcome.bytes = payload

\* C14 as stated: "AAA=" decodes to the three bytes 0, 0, 0, a payload of
\* odd length, and assembles to a container of 47 bytes.
C14_ThreeZeroBytes ==
  (DecoderCalled /\ base64Audio = <<"A", "A", "A", "=">>) =>
    /\ outcome.kind = "returned"
    /\ OutcomePayload = <<0, 0, 0>>
    /\ fn = "pcmToWavBlob" => Len(outcome.bytes) = 47

\* C14 as amended: "AAA=" holds three sextets, 18 bits, and decodes to the
\* two bytes 0, 0, a payload of even length; it assembles to 46 bytes.
C14_TwoZeroBytes ==
  (DecoderCalled /\ base64Audio = <<"A", "A", "A", "=">>) =>
    /\ outcome.kind = "returned"
    /\ OutcomePayload = <<0, 0>>
    /\ fn = "pcmToWavBlob" => Len(outcome.bytes) = 46

\* "AAA=" assembled
C14_Witness ==
  /\ fn = "pcmToWavBlob"
  /\ base64Audio = <<"A", "A", "A", "=">>
  /\ outcome.kind = "returned"
  /\ Len(outcome.bytes) = 46

\* the payload is no whole number of 16-bit mono sample frames
MisalignedPayload ==
  /\ fn = "pcmToWavBlob"
  /\ base64ToUint8Array(base64Audio).kind = "returned"
  /\ Len(DecodedPayload) % ((1 * 16) \div 8) # 0

\* C15: no alignment validation. A payload whose length is no multiple of
\* the frame size is neither rejected, truncated nor padded: the container
\* has 44 + len bytes, ends with the payload and has Subchunk2Size = len.
C15_NoAlignmentValidation ==
  MisalignedPayload =>
    /\ outcome.kind = "returned"
    /\ Len(outcome.bytes) = 44 + Len(DecodedPayload)
    /\ OutcomePayload = DecodedPayload
    /\ U32LE(outcome.bytes, 40) = Len(DecodedPayload)
    /\ U32LE(outcome.bytes, 40) % 2 = 1

\* a container with a payload of one byte
C15_Witness ==
  /\ MisalignedPayload
  /\ outcome.kind = "returned"
  /\ Len(outcome.bytes) = 45
  /\ outcome.bytes[41] = 1

\* C16: every object the assembler returns has the MIME type audio/wav,
\* whatever the payload and the sample rate.
C16_MimeType == ContainerReturned => outcome.type = "audio/wav"

\* a container of an empty payload at 8,000 Hz, typed
C16_Witness ==
  /\ ContainerReturned
  /\ args = <<8000>>
  /\ Len(outcome.bytes) = 44
  /\ outcome.type = "audio/wav"

\* C12: the result of a call depends only on its own input and sample
\* rate. Whatever the interleaving with the other calls, a finished call has
\* the result it has when run alone, and calls with equal inputs have equal
\* results.
C12_CallsIndependent ==
  \A i \in DOMAIN calls :
    calls[i].pc = "done" =>
      /\ calls[i].result = pcmToWavBlob(calls[i].base64, calls[i].arguments)
      /\ \A j \in DOMAIN calls :
           (/\ calls[j].pc = "done"
            /\ calls[j].base64 = calls[i].base64
            /\ calls[j].arguments = calls[i].arguments)
             => calls[j].result = calls[i].result

\* the first call has returned its container while the second, given another
\* input, is in progress between its header and its combining
C12_Witness ==
  /\ DOMAIN calls = 1..NumCalls
  /\ calls[1].pc = "done" /\ calls[1].result.kind = "returned"
  /\ calls[2].pc = "header"
  /\ Len(calls[2].pcmData) # Len(calls[1].pcmData)

\* every update of the component is rendered and its effects have run
EffectsHaveRun == life = "mounted" /\ state = rendered

\* the history list localStorage holds, empty when the key was never set
StoredHistory == JSONParse(storage.history.value)

\* list old is the tail of list new: new is old with items put in front
IsTailOf(old, new) ==
  /\ Len(old) <= Len(new)
  /\ SubSeq(new, Len(new) - Len(old) + 1, Len(new)) = old

\* C17: the history is persistent in localStorage. Once effects have run
\* the stored value is the JSON of the current history list, and mounting
\* (the load, and the save of the initial empty list) never loses a stored
\* history: the list stored before the mount is still stored after it.
C17_HistoryPersistent ==
  /\ [](EffectsHaveRun =>
          storage.history = Entry(JSONStringify(state.history)))
  /\ [][(life = "loaded" /\ life' = "mounted") =>
          IsTailOf(StoredHistory, JSONParse(storage'.history.value))]_vars

\* C18: the text-to-speech input is limited to MAX_TTS_CHARS characters:
\* the ttsText state never holds more, and no request to
\* generateSpeechFromText carries more.
C18_TtsTextWithinLimit ==
  /\ state.ttsText.length <= MAX_TTS_CHARS
  /\ \A k \in DOMAIN requests :
       requests[k].kind = "speech" => requests[k].text.length <= MAX_TTS_CHARS

\* the id of the voice with the given display name
VoiceIdNamed(name) ==
  IF VoiceNamed(name) # 0 THEN VOICES[VoiceNamed(name)].id ELSE "Unknown"

\* C19: handleRegenerateFromHistory(item) sends one request to
\* generateSpeechFromText, carrying item.text and the id of the voice named
\* item.voiceName, whatever ttsText and selectedVoice held at the click.
C19_RegenerateSendsItem ==
  [][\A k \in 1..MaxUrls :
       handleRegenerateFromHistory(k) =>
         requests' = requests \o
           <<SpeechRequest(rendered.history[k].text,
                           VoiceIdNamed(rendered.history[k].voiceName))>>]_vars

\* C20: when the App unmounts, the object URL of every item in the history
\* at that time (the history of the last render) is revoked.
C20_UnmountRevokesHistoryUrls ==
  [][(life = "mounted" /\ life' = "unmounted") =>
       \A i \in DOMAIN rendered.history :
         rendered.history[i].audioUrl \notin liveUrls']_vars

\* a recorder that was started and whose stop event has not been handled
RecorderActive(r) == r.state = "recording" \/ r.stopQueued

\* C21: while the App is mounted, recordingState is RECORDING exactly when
\* a started, not yet stopped MediaRecorder exists, and at most one
\* processAudio call is in flight.
C21_RecordingIffRecorder ==
  life = "mounted" =>
    /\ (state.recordingState = "RECORDING")
         <=> (\E i \in DOMAIN recorders : RecorderActive(recorders[i]))
    /\ Len(processing) <= 1

\* C22: at most one interval timer is active, and an active one is the one
\* timerRef holds, so that stopTimer can clear it.
C22_OneTimer ==
  /\ Cardinality(timers) <= 1
  /\ timers \subseteq {timerRef}

\* C23: processAudio. The step that starts a call leaves recordingState
\* PROCESSING; the step in which a call's awaits settle leaves it COMPLETED
\* with the transcription set to the result when there is a result, and
\* ERROR with the errorMsg of a failed transcription when there is none;
\* while recordingState is PROCESSING a call is in flight.
C23_ProcessAudioSettles ==
  [][/\ (life' = "mounted" /\ Len(processing') > Len(processing)) =>
          state'.recordingState = "PROCESSING"
     /\ (life = "mounted" /\ life' = "mounted"
           /\ Len(processing') < Len(processing)) =>
          \/ /\ settled'.kind = "result"
             /\ state'.recordingState = "COMPLETED"
             /\ state'.transcription = settled'.text
             /\ state'.errorMsg = state.errorMsg
          \/ /\ settled'.kind = "error"
             /\ state'.recordingState = "ERROR"
             /\ state'.errorMsg = TranscribeFailedMsg
             /\ state'.transcription = state.transcription
     /\ (life' = "mounted" /\ state'.recordingState = "PROCESSING") =>
          processing' # <<>>]_vars

\* a recording was stopped, its tracks ended, and its transcription failed
C23_Witness ==
  /\ life = "mounted"
  /\ Len(recorders) = 1
  /\ recorders[1].tracks = "ended"
  /\ processing = <<>>
  /\ settled.kind = "error"
  /\ state.recordingState = "ERROR"
  /\ state.errorMsg = TranscribeFailedMsg

\* a step in which a mounted App gets the answer to a speech request
SpeechAnswered ==
  /\ life = "mounted"
  /\ life' = "mounted"
  /\ SpeechPending' < SpeechPending

C25_UploadLimit ==
  [][uploads' = uploads + 1 =>
       IF selected'.size > 25 * 1024 * 1024
         THEN /\ state'.errorMsg = TooLargeMsg
              /\ processing' = processing
              /\ state'.recordingState = state.recordingState
         ELSE /\ state'.errorMsg = NoError
              /\ processing' =
                   Append(processing, ProcessAudioCall("upload", selected'.type))
              /\ state'.recordingState = "PROCESSING"]_vars

\* a first file was transcribed, and a second one, one byte above the
\* limit, was rejected with recordingState still COMPLETED
C25_Witness ==
  /\ life = "mounted"
  /\ uploads = 2
  /\ selected.size = MaxFileSize + 1
  /\ state.errorMsg = TooLargeMsg
  /\ state.recordingState = "COMPLETED"
  /\ settled.kind = "result"
  /\ processing = <<>>

\* C26: FileUploader calls onFileSelected only with an audio or video file
\* and never while disabled, whether a drop or the file input delivered
\* it; isDragging does not become true while disabled.
C26_OnlyAudioOrVideo ==
  [][/\ uploads' = uploads + 1 =>
          /\ IsAudioOrVideo(selected'.type)
          /\ ~Disabled
     /\ (isDragging' /\ ~isDragging) => ~Disabled]_vars

\* the u32 and u16 stored at byte offset off, read as wide numbers
W32LE(bytes, off) ==
  Wide(bytes[off + 4] * 256 + bytes[off + 3], bytes[off + 2] * 256 + bytes[off + 1])

W16LE(bytes, off) == Wide(0, bytes[off + 2] * 256 + bytes[off + 1])

WideLess(a, b) == a.hi < b.hi \/ (a.hi = b.hi /\ a.lo < b.lo)

\* stored is below 2^32 and differs from value by a multiple of 2^32
IsValueMod32(stored, value) ==
  /\ stored.hi < Limb
  /\ stored.lo = value.lo
  /\ stored.hi = value.hi % Limb

\* C27: no header field is truncated by its width. At 1 channel and 16 bits,
\* for a payload length up to 2^32 - 37 the stored ChunkSize is 36 + length,
\* and for a sample rate below 2^31 the stored SampleRate and ByteRate are
\* the rate and twice the rate; NumChannels, BlockAlign and BitsPerSample
\* are 1, 2 and 16. Beyond those bounds the stored value is the value modulo
\* 2^32, and no error is raised.
C27_FieldsNotTruncated ==
  (fn = "createWavHeader" /\ Len(args) = 4) =>
    LET dataLength == args[1]
        sampleRate == args[2]
        chunkSize  == WideAdd(Wide(0, 36), dataLength)
        byteRate   == WideAdd(sampleRate, sampleRate)
    IN /\ outcome.kind = "returned"
       /\ Len(outcome.bytes) = 44
       /\ W16LE(outcome.bytes, 22) = Wide(0, 1)
       /\ W16LE(outcome.bytes, 32) = Wide(0, 2)
       /\ W16LE(outcome.bytes, 34) = Wide(0, 16)
       /\ IF WideLess(dataLength, Wide(65535, 65500))
            THEN W32LE(outcome.bytes, 4) = chunkSize
            ELSE /\ IsValueMod32(W32LE(outcome.bytes, 4), chunkSize)
                 /\ W32LE(outcome.bytes, 4) # chunkSize
       /\ IF WideLess(sampleRate, Wide(32768, 0))
            THEN /\ W32LE(outcome.bytes, 24) = sampleRate
                 /\ W32LE(outcome.bytes, 28) = byteRate
            ELSE /\ IsValueMod32(W32LE(outcome.bytes, 24), sampleRate)
                 /\ IsValueMod32(W32LE(outcome.bytes, 28), byteRate)
                 /\ W32LE(outcome.bytes, 28) # byteRate

\* the largest payload whose ChunkSize fits, 2^32 - 37 bytes, at the largest
\* rate whose ByteRate fits: ChunkSize is 2^32 - 1 and ByteRate 2^32 - 2
C27_Witness ==
  /\ fn = "createWavHeader"
  /\ args = <<Wide(65535, 65499), Wide(32767, 65535), 1, 16>>
  /\ BytesAt(outcome.bytes, 4, 4) = <<255, 255, 255, 255>>
  /\ BytesAt(outcome.bytes, 28, 4) = <<254, 255, 255, 255>>

====
